---- MODULE Spec2Model ----
(***************************************************************************)
(* State-machine model of src/src/index.ts (cherrypick-and-create-pr).     *)
(* One run of run(): read the inputs, validate, name the branch, configure *)
(* git, fetch, create the branch, cherry-pick the commits one at a time,   *)
(* report the outputs, push, create the pull request, attach the labels.   *)
(* Every awaited external call (git subprocess, GitHub API) is one action; *)
(* its exit code and captured output are chosen by the environment.        *)
(*                                                                         *)
(* Text is a sequence of one-character strings, so that split, trim,       *)
(* includes and substring are computed as the code computes them.  Fixed   *)
(* message templates are tuples <<template, argument>>.                    *)
(***************************************************************************)
EXTENDS Integers, Sequences, FiniteSets, TLC

VARIABLES
    pc,               \* position of run() (the next awaited call)
    inputs,           \* the Inputs record built at index.ts:289-301
    branchName,       \* const branchName, index.ts:317
    idx,              \* 1-based position of `commit` in the for..of loop, index.ts:122
    successfulCommits,\* index.ts:120
    result,           \* ExecOutput of the cherry-pick of the current commit, index.ts:125
    statusResult,     \* stdout of git status --porcelain, index.ts:131
    commitResult,     \* ExecOutput of git commit, index.ts:157
    cherryPickResult, \* CherryPickResult returned to run(), index.ts:330
    pr,               \* response.data of pulls.create, index.ts:224
    title,            \* let title, index.ts:199
    body,             \* let body, index.ts:210 (the commit lines of the default body)
    bodyIdx,          \* position in the loop over successfulCommits, index.ts:215
    trace,            \* every external call and every setOutput issued, in order
    outputs,          \* core.setOutput values by output name
    failed,           \* the message given to core.setFailed, or NotFailed
    warnings,         \* the messages given to core.warning, in order
    tree,             \* the working tree as git leaves it
    abortExit,        \* exit codes of the git cherry-pick --abort calls, in order
    infraResult,      \* the last git call whose exit code run() tests (fetch,
                      \* checkout, checkout -b, push) and that exit code
    requests,         \* the requests sent to the GitHub API, in order
    failedOutputs,    \* the outputs as they stood at each core.setFailed call
    names,            \* branch names generated by concurrent runs, index.ts:317
    clock             \* Date.now(), in milliseconds

vars == <<pc, inputs, branchName, idx, successfulCommits, result, statusResult,
          commitResult, cherryPickResult, pr, title, body, bodyIdx, trace,
          outputs, failed, warnings, tree, abortExit, infraResult, requests,
          failedOutputs, names, clock>>

---------------------------------------------------------------------------
(* Bounds of the model *)

\* longest raw `commits` input, in characters
MaxInputLen == 3
\* most path entries in one git status --porcelain output
MaxStatusEntries == 1

---------------------------------------------------------------------------
(* Text helpers: what the JavaScript string methods compute *)

Whitespace == {" ", "\n"}

RECURSIVE TrimStart(_)
TrimStart(s) ==
    IF s # <<>> /\ Head(s) \in Whitespace THEN TrimStart(Tail(s)) ELSE s

RECURSIVE TrimEnd(_)
TrimEnd(s) ==
    IF s # <<>> /\ s[Len(s)] \in Whitespace
    THEN TrimEnd(SubSeq(s, 1, Len(s) - 1))
    ELSE s

\* String.prototype.trim
Trim(s) == TrimEnd(TrimStart(s))

\* String.prototype.split(sep) for a one-character separator: always at
\* least one piece, the empty string splits into one empty piece.
RECURSIVE SplitFrom(_, _, _)
SplitFrom(s, sep, cur) ==
    IF s = <<>> THEN <<cur>>
    ELSE IF Head(s) = sep THEN <<cur>> \o SplitFrom(Tail(s), sep, <<>>)
    ELSE SplitFrom(Tail(s), sep, Append(cur, Head(s)))

Split(s, sep) == SplitFrom(s, sep, <<>>)

\* String.prototype.includes
Includes(s, pat) ==
    \E i \in 1..(Len(s) - Len(pat) + 1) : SubSeq(s, i, i + Len(pat) - 1) = pat

\* All sequences over S of length at most n
SeqsUpTo(S, n) == UNION {[1..k -> S] : k \in 0..n}

RECURSIVE Concat(_)
Concat(ss) == IF ss = <<>> THEN <<>> ELSE Head(ss) \o Concat(Tail(ss))

Min(a, b) == IF a < b THEN a ELSE b

---------------------------------------------------------------------------
(* The environment: what the caller supplies and what git and the API answer *)

\* characters of the raw `commits` input
RawAlphabet == {"a", ",", " "}
\* a commit reference longer than the short form, alone and followed by a
\* second commit
LongRawCommitInputs ==
    {<<"a", "b", "c", "d", "e", "f", "g", "h", "i">>,
     <<"a", "b", "c", "d", "e", "f", "g", "h", "i", ",", "b">>}
RawCommitInputs == SeqsUpTo(RawAlphabet, MaxInputLen) \cup LongRawCommitInputs

RepositoryInputs == {<<>>, <<"o", "/", "r">>}
RepositoryEnvs == {<<>>, <<"e", "/", "r">>}
TargetBranches == {<<"r", "/", "1">>}
NewBranchInputs == {<<>>}
PrTitleInputs == {<<>>, <<"T">>}
PrBodyInputs == {<<>>, <<"B">>}
LabelInputs == {<<>>, <<"x", ",", "y">>}
\* Date.now(), as the digits the template literal prints
Timestamps == {<<"1", "7">>}
\* index.ts:185-188: the stdout of git log -1 --format=%s <commit>, the
\* subject the repository holds for that commit
SubjectOf(commit) == <<"s", ":">> \o commit

ExitCodes == {0, 1}

\* git cherry-pick <commit> --no-commit: exit code and captured output
ApplyResults ==
    { [exitCode |-> 0, stdout |-> <<>>, stderr |-> <<>>],
      [exitCode |-> 1, stdout |-> <<>>, stderr |-> <<"error: could not apply">>],
      [exitCode |-> 1, stdout |-> <<"cherry-pick output">>, stderr |-> <<>>],
      [exitCode |-> 1, stdout |-> <<>>, stderr |-> <<>>] }

\* git commit -m ...: exit code and captured output (git prints
\* "nothing to commit, working tree clean" on stdout and exits 1)
NothingToCommit == <<"nothing to commit">>
CommitResults ==
    { [exitCode |-> 0, stdout |-> <<"[branch] Cherry-pick">>, stderr |-> <<>>],
      [exitCode |-> 1,
       stdout |-> <<"On branch\n", "nothing to commit", ", working tree clean">>,
       stderr |-> <<>>],
      [exitCode |-> 1, stdout |-> <<>>, stderr |-> <<"error: commit failed">>] }

\* git status --porcelain: one "XY path" line per entry
UU == <<"U", "U">>
AA == <<"A", "A">>
DD == <<"D", "D">>
StatusCodes == {UU, AA, DD, <<"A", "U">>, <<"?", "?">>}
\* the codes git gives an unmerged path (of its seven, these four)
UnmergedCodes == {UU, AA, DD, <<"A", "U">>}
StatusPaths == {<<"f">>, <<"A", "A">>}
StatusEntries == [code : StatusCodes, path : StatusPaths]

PorcelainLine(e) == e.code \o <<" ">> \o e.path \o <<"\n">>
\* what execCommand returns as stdout: the lines, trimmed (index.ts:86)
PorcelainStdout(entries) ==
    Trim(Concat([i \in 1..Len(entries) |-> PorcelainLine(entries[i])]))

\* the outputs git status can print for a working tree: it lists an unmerged
\* path exactly when the failed cherry-pick left the tree in conflict
StatusOutputsFor(t) ==
    { es \in SeqsUpTo(StatusEntries, MaxStatusEntries) :
        (t = "conflicted") <=> (\E i \in 1..Len(es) : es[i].code \in UnmergedCodes) }

---------------------------------------------------------------------------
(* Pure parts of index.ts *)

\* index.ts:255: commits[0].substring(0, 7)
ShortShaLen == 7

\* index.ts:290: getInput('commits').split(',').map(c => c.trim())
ParseCommits(raw) ==
    LET pieces == Split(raw, ",") IN [i \in 1..Len(pieces) |-> Trim(pieces[i])]

\* index.ts:300: getInput('labels') ? split(',').map(l => l.trim()) : []
ParseLabels(raw) == IF raw # <<>> THEN ParseCommits(raw) ELSE <<>>

\* index.ts:296: getInput('repository') || process.env.GITHUB_REPOSITORY || ''
ResolveRepository(input, env) ==
    IF input # <<>> THEN input ELSE IF env # <<>> THEN env ELSE <<>>

\* index.ts:303
RepositoryMissing(in) == in.repository = <<>>

\* faulty variant of NoCommits: only the empty list counts, [''] passes
NoCommitsLengthOnly(in) == Len(in.commits) = 0

\* index.ts:307
NoCommits(in) ==
    \/ Len(in.commits) = 0
    \/ (Len(in.commits) = 1 /\ in.commits[1] = <<>>)

\* String.prototype.substring(0, n)
Substring0(s, n) == SubSeq(s, 1, Min(n, Len(s)))

\* faulty variant of SanitizeTarget: replace without the g flag, the first
\* slash only
SanitizeFirstSlash(s) ==
    [i \in 1..Len(s) |->
        IF s[i] = "/" /\ (\A j \in 1..(i - 1) : s[j] # "/") THEN "-" ELSE s[i]]

\* String.prototype.replace(/\//g, '-')
SanitizeTarget(s) == [i \in 1..Len(s) |-> IF s[i] = "/" THEN "-" ELSE s[i]]

\* index.ts:253-258
generateBranchName(targetBranch, commits, timestamp) ==
    <<"c", "h", "e", "r", "r", "y", "p", "i", "c", "k", "/">>
        \o SanitizeTarget(targetBranch) \o <<"/">>
        \o Substring0(commits[1], ShortShaLen) \o <<"-">> \o timestamp

\* Number to string in a template literal: the decimal digits of n
DigitChars == <<"0", "1", "2", "3", "4", "5", "6", "7", "8", "9">>
RECURSIVE Digits(_)
Digits(n) ==
    IF n < 10 THEN <<DigitChars[n + 1]>>
    ELSE Append(Digits(n \div 10), DigitChars[(n % 10) + 1])

\* index.ts:317: inputs.newBranch || generateBranchName(...)
BranchNameFor(in, timestamp) ==
    IF in.newBranch # <<>> THEN in.newBranch
    ELSE generateBranchName(in.targetBranch, in.commits, timestamp)

\* index.ts:132-134
hasConflict(stdout) ==
    \/ Includes(stdout, UU)
    \/ Includes(stdout, AA)
    \/ Includes(stdout, DD)

\* faulty variant of CommitFailed: any non-zero exit of git commit is a failure
CommitFailedStrict(cr) == cr.exitCode # 0

\* index.ts:158: the commit step failed
CommitFailed(cr) ==
    cr.exitCode # 0 /\ ~Includes(cr.stdout, NothingToCommit)

\* index.ts:152: result.stderr || result.stdout
ApplyError(r) == IF r.stderr # <<>> THEN r.stderr ELSE r.stdout

\* faulty variant of ConflictResult: the conflicting commit is counted as applied
ConflictResultCountsFailed(sc, commit) ==
    [status |-> "conflict", successfulCommits |-> Append(sc, commit),
     failedCommit |-> commit,
     error |-> <<"Merge conflict while cherry-picking commit ", commit>>]

\* index.ts:140-145
ConflictResult(sc, commit) ==
    [status |-> "conflict", successfulCommits |-> sc, failedCommit |-> commit,
     error |-> <<"Merge conflict while cherry-picking commit ", commit>>]

\* index.ts:148-153
ApplyFailedResult(sc, commit, r) ==
    [status |-> "failed", successfulCommits |-> sc, failedCommit |-> commit,
     error |-> ApplyError(r)]

\* faulty variant of CommitFailedResult: the commit is counted as applied
CommitFailedResultCounts(sc, commit, cr) ==
    [status |-> "failed", successfulCommits |-> Append(sc, commit),
     failedCommit |-> commit,
     error |-> <<"Failed to commit cherry-pick: ", cr.stderr>>]

\* index.ts:159-164
CommitFailedResult(sc, commit, cr) ==
    [status |-> "failed", successfulCommits |-> sc, failedCommit |-> commit,
     error |-> <<"Failed to commit cherry-pick: ", cr.stderr>>]

\* faulty variant of SuccessResult: every outcome carries all four fields
SuccessResultAllFields(sc) ==
    [status |-> "success", successfulCommits |-> sc, failedCommit |-> <<>>,
     error |-> <<>>]

\* index.ts:171-174
SuccessResult(sc) == [status |-> "success", successfulCommits |-> sc]

\* faulty variant of PushCommit: a commit already in the list is not recorded again
PushCommitDedup(sc, commit) ==
    IF \E i \in 1..Len(sc) : sc[i] = commit THEN sc ELSE Append(sc, commit)

\* index.ts:167: successfulCommits.push(commit)
PushCommit(sc, commit) == Append(sc, commit)

\* faulty variant of NextIndex: the loop skips an element
NextIndexSkips(i) == i + 2

\* index.ts:122: the for..of loop moves to the next element
NextIndex(i) == i + 1

\* faulty variant of AfterReplayPc: run() goes on to the push whatever the outcome
AfterReplayPcAlwaysPush(status) == "push"

\* index.ts:334-347: run() goes on to the push only after a success
AfterReplayPc(status) == IF status = "success" THEN "push" ELSE "done"

---------------------------------------------------------------------------
(* State *)

NoResult == [status |-> "pending"]
NoExec == [exitCode |-> 0, stdout |-> <<>>, stderr |-> <<>>]
NoPr == [number |-> 0, url |-> <<>>]
NoInputs ==
    [commits |-> <<>>, targetBranch |-> <<>>, newBranch |-> <<>>,
     prTitle |-> <<>>, prBody |-> <<>>, repository |-> <<>>, labels |-> <<>>]

NoInfra == [op |-> "none", exitCode |-> 0]

Op(name, pos) == [op |-> name, pos |-> pos]

Init ==
    /\ pc = "start"
    /\ inputs = NoInputs
    /\ branchName = <<>>
    /\ idx = 0
    /\ successfulCommits = <<>>
    /\ result = NoExec
    /\ statusResult = <<>>
    /\ commitResult = NoExec
    /\ cherryPickResult = NoResult
    /\ pr = NoPr
    /\ title = <<>>
    /\ body = <<>>
    /\ bodyIdx = 0
    /\ trace = <<>>
    /\ outputs = <<>>
    /\ failed = <<>>
    /\ warnings = <<>>
    /\ tree = "clean"
    /\ abortExit = <<>>
    /\ infraResult = NoInfra
    /\ requests = <<>>
    /\ failedOutputs = <<>>
    /\ names = <<>>
    /\ clock = 0

---------------------------------------------------------------------------
(* run(): index.ts:287-365 *)

\* faulty variant of ExitFailed: exit code 1 is taken for success
ExitFailedAboveOne(e) == e > 1

\* faulty variant of ExitFailed: the exit code is not tested
ExitFailedNever(e) == FALSE

\* index.ts:98, 108, 114, 180: result.exitCode !== 0
ExitFailed(e) == e # 0

\* index.ts:358-364: the catch block of run()
Throw(msg) ==
    /\ failed' = Append(failed, msg)
    /\ failedOutputs' = Append(failedOutputs, outputs)
    /\ pc' = "done"

\* index.ts:289-318: read the inputs, validate, name the branch (no await)
Start ==
    /\ pc = "start"
    /\ \E raw \in RawCommitInputs, repoIn \in RepositoryInputs,
          repoEnv \in RepositoryEnvs, target \in TargetBranches,
          nb \in NewBranchInputs, t \in PrTitleInputs, b \in PrBodyInputs,
          labelsRaw \in LabelInputs, now \in Timestamps :
        LET in == [commits |-> ParseCommits(raw),
                   targetBranch |-> target,
                   newBranch |-> nb,
                   prTitle |-> t,
                   prBody |-> b,
                   repository |-> ResolveRepository(repoIn, repoEnv),
                   labels |-> ParseLabels(labelsRaw)]
        IN  /\ inputs' = in
            /\ IF RepositoryMissing(in)
               THEN /\ Throw(<<"Repository not specified and GITHUB_REPOSITORY not set">>)
                    /\ UNCHANGED branchName
               ELSE IF NoCommits(in)
               THEN /\ Throw(<<"No commits specified">>)
                    /\ UNCHANGED branchName
               ELSE /\ branchName' = BranchNameFor(in, now)
                    /\ pc' = "configureGit"
                    /\ UNCHANGED <<failed, failedOutputs>>
    /\ UNCHANGED <<idx, successfulCommits, result, statusResult, commitResult,
                   cherryPickResult, pr, title, body, bodyIdx, trace, outputs,
                   warnings, tree, abortExit>>
    /\ UNCHANGED <<infraResult, requests, names, clock>>

\* index.ts:89-93: two git config calls, their exit codes are not read
ConfigureGit ==
    /\ pc = "configureGit"
    /\ trace' = trace \o <<Op("config user.name", 0), Op("config user.email", 0)>>
    /\ pc' = "fetch"
    /\ UNCHANGED <<inputs, branchName, idx, successfulCommits, result, statusResult,
                   commitResult, cherryPickResult, pr, title, body, bodyIdx,
                   outputs, failed, failedOutputs, warnings, tree, abortExit>>
    /\ UNCHANGED <<infraResult, requests, names, clock>>

\* index.ts:95-101
FetchBranch ==
    /\ pc = "fetch"
    /\ trace' = Append(trace, Op("fetch", 0))
    /\ \E e \in ExitCodes :
        /\ infraResult' = [op |-> "fetch", exitCode |-> e]
        /\ IF ExitFailed(e)
           THEN Throw(<<"Failed to fetch branch ", inputs.targetBranch>>)
           ELSE pc' = "checkout" /\ UNCHANGED <<failed, failedOutputs>>
    /\ UNCHANGED <<inputs, branchName, idx, successfulCommits, result, statusResult,
                   commitResult, cherryPickResult, pr, title, body, bodyIdx,
                   outputs, warnings, tree, abortExit>>
    /\ UNCHANGED <<requests, names, clock>>

\* index.ts:107-110: git checkout origin/<target>
CheckoutTarget ==
    /\ pc = "checkout"
    /\ trace' = Append(trace, Op("checkout", 0))
    /\ \E e \in ExitCodes :
        /\ infraResult' = [op |-> "checkout", exitCode |-> e]
        /\ IF ExitFailed(e)
           THEN Throw(<<"Failed to checkout origin/", inputs.targetBranch>>)
           ELSE pc' = "createBranch" /\ UNCHANGED <<failed, failedOutputs>>
    /\ UNCHANGED <<inputs, branchName, idx, successfulCommits, result, statusResult,
                   commitResult, cherryPickResult, pr, title, body, bodyIdx,
                   outputs, warnings, tree, abortExit>>
    /\ UNCHANGED <<requests, names, clock>>

\* index.ts:113-116: git checkout -b <branchName>; on success run() enters
\* cherryPickCommits (index.ts:330, 120-122)
CreateBranch ==
    /\ pc = "createBranch"
    /\ trace' = Append(trace, Op("checkout -b", 0))
    /\ \E e \in ExitCodes :
        /\ infraResult' = [op |-> "checkout -b", exitCode |-> e]
        /\ IF ExitFailed(e)
           THEN /\ Throw(<<"Failed to create branch ", branchName>>)
                /\ UNCHANGED <<idx, successfulCommits>>
           ELSE /\ pc' = "cherryPick"
                /\ idx' = 1
                /\ successfulCommits' = <<>>
                /\ UNCHANGED <<failed, failedOutputs>>
    /\ UNCHANGED <<inputs, branchName, result, statusResult, commitResult,
                   cherryPickResult, pr, title, body, bodyIdx, outputs, warnings,
                   tree, abortExit>>
    /\ UNCHANGED <<requests, names, clock>>

\* faulty variant of SetReplayOutputs: the branch-name output is not set here
SetStatusOutputOnly(cpr, tr) ==
    /\ outputs' = ("cherry-pick-status" :> cpr.status) @@ outputs
    /\ trace' = Append(tr, Op("setOutput cherry-pick-status", 0))

\* faulty variant of SetReplayOutputs: the outputs are set only when the replay did
\* not succeed (after a success they are left for the end of the run)
SetReplayOutputsOnFailure(cpr, tr) ==
    IF cpr.status = "success"
    THEN outputs' = outputs /\ trace' = tr
    ELSE /\ outputs' = ("cherry-pick-status" :> cpr.status)
                        @@ ("branch-name" :> branchName) @@ outputs
         /\ trace' = tr \o <<Op("setOutput cherry-pick-status", 0),
                             Op("setOutput branch-name", 0)>>

\* index.ts:331-332: the two core.setOutput calls after the replay
SetReplayOutputs(cpr, tr) ==
    /\ outputs' = ("cherry-pick-status" :> cpr.status)
                    @@ ("branch-name" :> branchName) @@ outputs
    /\ trace' = tr \o <<Op("setOutput cherry-pick-status", 0),
                        Op("setOutput branch-name", 0)>>

\* faulty variant of FailureMessage: one message for both outcomes
FailureMessageGeneric(cpr) == <<"Cherry-pick failed: ", cpr.error>>

\* index.ts:336, 342, 360: the message handed to core.setFailed
FailureMessage(cpr) ==
    IF cpr.status = "failed"
    THEN <<"Cherry-pick failed: ", cpr.error>>
    ELSE <<"Merge conflict while cherry-picking commit ", cpr.failedCommit>>

\* index.ts:330-344: cherryPickCommits returns cpr to run(), which sets the
\* two outputs and then fails the run, or goes on to the push (no await)
AfterReplay(cpr, tr, warn) ==
    /\ cherryPickResult' = cpr
    /\ SetReplayOutputs(cpr, tr)
    /\ pc' = AfterReplayPc(cpr.status)
    /\ CASE cpr.status = "failed" ->
              /\ failed' = Append(failed, FailureMessage(cpr))
              /\ failedOutputs' = Append(failedOutputs, outputs')
              /\ warnings' = warn
         [] cpr.status = "conflict" ->
              /\ warnings' = Append(warn,
                    <<"Cherry-pick had conflicts. Manual intervention required.">>)
              /\ failed' = Append(failed, FailureMessage(cpr))
              /\ failedOutputs' = Append(failedOutputs, outputs')
         [] OTHER ->
              /\ failed' = failed
              /\ failedOutputs' = failedOutputs
              /\ warnings' = warn

\* index.ts:122-129: the next iteration (its commitResult is not yet set):
\* git cherry-pick <commit> --no-commit.  A cherry-pick
\* that exits 0 leaves the change staged; one that fails leaves the tree as
\* it was or in conflict.
CherryPick ==
    /\ pc = "cherryPick"
    /\ trace' = Append(trace, Op("cherry-pick", idx))
    /\ \E r \in ApplyResults :
        /\ result' = r
        /\ commitResult' = NoExec
        /\ IF r.exitCode # 0
           THEN pc' = "status" /\ tree' \in {tree, "conflicted"}
           ELSE pc' = "commit" /\ tree' = "staged"
    /\ UNCHANGED <<inputs, branchName, idx, successfulCommits, statusResult,
                   cherryPickResult, pr, title, body, bodyIdx,
                   outputs, failed, failedOutputs, warnings, abortExit>>
    /\ UNCHANGED <<infraResult, requests, names, clock>>

\* index.ts:131-137, 148-153: git status --porcelain, then the conflict test;
\* without a conflict cherryPickCommits returns failed
GitStatus ==
    /\ pc = "status"
    /\ \E es \in StatusOutputsFor(tree) :
        LET stdout == PorcelainStdout(es) IN
        /\ statusResult' = stdout
        /\ IF hasConflict(stdout)
           THEN /\ warnings' = Append(warnings,
                      <<"Conflict detected while cherry-picking ", inputs.commits[idx]>>)
                /\ trace' = Append(trace, Op("status", idx))
                /\ pc' = "abort"
                /\ UNCHANGED <<cherryPickResult, outputs, failed, failedOutputs>>
           ELSE AfterReplay(
                    ApplyFailedResult(successfulCommits, inputs.commits[idx], result),
                    Append(trace, Op("status", idx)), warnings)
    /\ UNCHANGED <<inputs, branchName, idx, successfulCommits, result, commitResult,
                   pr, title, body, bodyIdx, tree, abortExit>>
    /\ UNCHANGED <<infraResult, requests, names, clock>>

\* faulty variant of AbortCherryPick: conflict is returned without calling the abort
AbortSkipped ==
    /\ pc = "abort"
    /\ AfterReplay(ConflictResult(successfulCommits, inputs.commits[idx]),
                   trace, warnings)
    /\ UNCHANGED <<inputs, branchName, idx, successfulCommits, result, statusResult,
                   commitResult, pr, title, body, bodyIdx, tree, abortExit>>
    /\ UNCHANGED <<infraResult, requests, names, clock>>

\* index.ts:139-145: git cherry-pick --abort, exit code not read, then
\* cherryPickCommits returns conflict.  An abort that exits 0 has restored
\* the tree; one that fails has changed nothing.
AbortCherryPick ==
    /\ pc = "abort"
    /\ \E e \in ExitCodes :
        /\ abortExit' = Append(abortExit, e)
        /\ tree' = IF e = 0 THEN "clean" ELSE tree
    /\ AfterReplay(ConflictResult(successfulCommits, inputs.commits[idx]),
                   Append(trace, Op("cherry-pick --abort", idx)), warnings)
    /\ UNCHANGED <<inputs, branchName, idx, successfulCommits, result, statusResult,
                   commitResult, pr, title, body, bodyIdx>>
    /\ UNCHANGED <<infraResult, requests, names, clock>>

\* index.ts:157-174: git commit -m "Cherry-pick: <commit>"; a failure returns
\* failed, otherwise the commit is recorded and the loop goes on or ends
GitCommit ==
    /\ pc = "commit"
    /\ \E cr \in CommitResults :
        /\ commitResult' = cr
        /\ tree' = IF cr.exitCode = 0 \/ Includes(cr.stdout, NothingToCommit)
                   THEN "clean" ELSE tree
        /\ IF CommitFailed(cr)
           THEN /\ AfterReplay(
                      CommitFailedResult(successfulCommits, inputs.commits[idx], cr),
                      Append(trace, Op("commit", idx)), warnings)
                /\ UNCHANGED <<idx, successfulCommits>>
           ELSE LET sc == PushCommit(successfulCommits, inputs.commits[idx]) IN
                /\ successfulCommits' = sc
                /\ idx' = NextIndex(idx)
                /\ IF NextIndex(idx) > Len(inputs.commits)
                   THEN AfterReplay(SuccessResult(sc),
                                    Append(trace, Op("commit", idx)), warnings)
                   ELSE /\ pc' = "cherryPick"
                        /\ trace' = Append(trace, Op("commit", idx))
                        /\ UNCHANGED <<cherryPickResult, outputs, failed, failedOutputs, warnings>>
    /\ UNCHANGED <<inputs, branchName, result, statusResult, pr, title, body,
                   bodyIdx, abortExit>>
    /\ UNCHANGED <<infraResult, requests, names, clock>>

\* index.ts:177-183, 347
PushBranch ==
    /\ pc = "push"
    /\ trace' = Append(trace, Op("push", 0))
    /\ \E e \in ExitCodes :
        /\ infraResult' = [op |-> "push", exitCode |-> e]
        /\ IF ExitFailed(e)
           THEN Throw(<<"Failed to push branch: ">>)
           ELSE pc' = "title" /\ UNCHANGED <<failed, failedOutputs>>
    /\ UNCHANGED <<inputs, branchName, idx, successfulCommits, result, statusResult,
                   commitResult, cherryPickResult, pr, title, body, bodyIdx,
                   outputs, warnings, tree, abortExit>>
    /\ UNCHANGED <<requests, names, clock>>

\* faulty variant of TitleCount: one less than the number of commits
TitleCountOffByOne(in) == Len(in.commits) - 1

\* index.ts:205: ${inputs.commits.length}
TitleCount(in) == Len(in.commits)

\* faulty variant of BodyLine: the whole commit reference
BodyLineFullSha(commit, msg) == [sha |-> commit, msg |-> msg]

\* index.ts:217: - `${commit.substring(0, 7)}` ${msg}
BodyLine(commit, msg) == [sha |-> Substring0(commit, ShortShaLen), msg |-> msg]

\* faulty variant of AfterTitlePc: the body is generated even when provided
AfterTitlePcAlwaysBody(in) == "body"

\* index.ts:212-214, 210-211: where createPullRequest goes after the title
AfterTitlePc(in) == IF in.prBody # <<>> THEN "create" ELSE "body"

\* index.ts:198-207: the title, with one git log call when it is generated
\* for a single requested commit
ComposeTitle ==
    /\ pc = "title"
    /\ IF inputs.prTitle # <<>>
       THEN /\ title' = [kind |-> "provided", n |-> 0, text |-> inputs.prTitle]
            /\ UNCHANGED trace
       ELSE IF Len(inputs.commits) = 1
       THEN /\ title' = [kind |-> "Cherry-pick: ", n |-> 0,
                         text |-> SubjectOf(inputs.commits[1])]
            /\ trace' = Append(trace, Op("log", 1))
       ELSE /\ title' = [kind |-> "Cherry-pick N commits to ",
                         n |-> TitleCount(inputs), text |-> inputs.targetBranch]
            /\ UNCHANGED trace
    /\ pc' = AfterTitlePc(inputs)
    /\ bodyIdx' = 1
    /\ body' = <<>>
    /\ UNCHANGED <<inputs, branchName, idx, successfulCommits, result, statusResult,
                   commitResult, cherryPickResult, pr, outputs, failed, failedOutputs, warnings,
                   tree, abortExit>>
    /\ UNCHANGED <<infraResult, requests, names, clock>>

\* index.ts:215-218: one git log call and one body line per applied commit
BodyLookup ==
    /\ pc = "body"
    /\ LET commit == cherryPickResult.successfulCommits[bodyIdx] IN
       body' = Append(body, BodyLine(commit, SubjectOf(commit)))
    /\ trace' = Append(trace, Op("log", bodyIdx))
    /\ bodyIdx' = bodyIdx + 1
    /\ pc' = IF bodyIdx + 1 > Len(cherryPickResult.successfulCommits)
             THEN "create" ELSE "body"
    /\ UNCHANGED <<inputs, branchName, idx, successfulCommits, result, statusResult,
                   commitResult, cherryPickResult, pr, title, outputs, failed, failedOutputs,
                   warnings, tree, abortExit>>
    /\ UNCHANGED <<infraResult, requests, names, clock>>

\* index.ts:351-356: run() sets the pull-request outputs and ends
Finish(response, tr) ==
    /\ outputs' = ("pr-url" :> response.url)
                    @@ ("pr-number" :> response.number) @@ outputs
    /\ trace' = tr \o <<Op("setOutput pr-url", 0), Op("setOutput pr-number", 0)>>
    /\ pc' = "done"
    /\ UNCHANGED <<failed, failedOutputs>>

\* index.ts:210-221: the body sent, the provided one or the generated one
\* (header with the target branch, the commit lines, the footer)
RequestBody(in, lines) ==
    IF in.prBody # <<>>
    THEN [kind |-> "provided", text |-> in.prBody]
    ELSE [kind |-> "generated", target |-> in.targetBranch, lines |-> lines]

\* index.ts:196, 224-232: the pulls.create request
CreateRequest(in, head, t, lines) ==
    LET parts == Split(in.repository, "/") IN
    [api |-> "pulls.create",
     owner |-> parts[1],
     repo |-> IF Len(parts) >= 2 THEN parts[2] ELSE <<>>,
     title |-> t,
     body |-> RequestBody(in, lines),
     head |-> head,
     base |-> in.targetBranch]

\* index.ts:239-244: the issues.addLabels request
LabelsRequest(in, response) ==
    [api |-> "issues.addLabels", issue_number |-> response.number,
     labels |-> in.labels]

\* faulty variant of HasLabels: the labels are attached whatever their number
HasLabelsAlways(in) == TRUE

\* index.ts:237: inputs.labels.length > 0
HasLabels(in) == Len(in.labels) > 0

\* index.ts:224-237, 247-250: octokit.rest.pulls.create; a rejected call
\* throws into the catch block of run()
PullsCreate ==
    /\ pc = "create"
    /\ requests' = Append(requests, CreateRequest(inputs, branchName, title, body))
    /\ \E ok \in BOOLEAN :
        IF ~ok
        THEN /\ Throw(<<"HttpError: pulls.create">>)
             /\ trace' = Append(trace, Op("pulls.create", 0))
             /\ UNCHANGED <<pr, outputs>>
        ELSE LET response == [number |-> 42, url |-> <<"u", "/", "4", "2">>] IN
             /\ pr' = response
             /\ IF HasLabels(inputs)
                THEN /\ pc' = "labels"
                     /\ trace' = Append(trace, Op("pulls.create", 0))
                     /\ UNCHANGED <<outputs, failed, failedOutputs>>
                ELSE Finish(response, Append(trace, Op("pulls.create", 0)))
    /\ UNCHANGED <<inputs, branchName, idx, successfulCommits, result, statusResult,
                   commitResult, cherryPickResult, title, body, bodyIdx, warnings,
                   tree, abortExit>>
    /\ UNCHANGED <<infraResult, names, clock>>

\* index.ts:237-250: octokit.rest.issues.addLabels
AddLabels ==
    /\ pc = "labels"
    /\ requests' = Append(requests, LabelsRequest(inputs, pr))
    /\ \E ok \in BOOLEAN :
        IF ~ok
        THEN /\ Throw(<<"HttpError: issues.addLabels">>)
             /\ trace' = Append(trace, Op("issues.addLabels", 0))
             /\ UNCHANGED outputs
        ELSE Finish(pr, Append(trace, Op("issues.addLabels", 0)))
    /\ UNCHANGED <<inputs, branchName, idx, successfulCommits, result, statusResult,
                   commitResult, cherryPickResult, pr, title, body, bodyIdx,
                   warnings, tree, abortExit>>
    /\ UNCHANGED <<infraResult, names, clock>>

Next ==
    \/ Start
    \/ ConfigureGit
    \/ FetchBranch
    \/ CheckoutTarget
    \/ CreateBranch
    \/ CherryPick
    \/ GitStatus
    \/ AbortCherryPick
    \/ GitCommit
    \/ PushBranch
    \/ ComposeTitle
    \/ BodyLookup
    \/ PullsCreate
    \/ AddLabels

Spec == Init /\ [][Next]_vars

\* every awaited call (git subprocess, API request) eventually returns or
\* throws, so a run that can take a step eventually takes one
SpecFair == Spec /\ WF_vars(Next)

---------------------------------------------------------------------------
(* Branch naming across runs: index.ts:253-258, 317.  Each run reads its   *)
(* own inputs and the wall clock and computes its branch name; no run sees *)
(* another run's name.                                                     *)

MaxRuns == 2
MaxTicks == 1

\* Date.now(): the milliseconds the runs can read
Instants == 9..(9 + MaxTicks)

NamingTargets == {<<"m">>, <<"r", "/", "1">>, <<"a", "/", "b", "/", "c">>}
NamingFirstCommits ==
    {<<"a", "b">>,
     <<"a", "b", "c", "d", "e", "f", "g">>,
     <<"a", "b", "c", "d", "e", "f", "g", "h", "i">>}
NamingNewBranches == {<<>>, <<"n", "/", "b">>}

NamingInit ==
    /\ pc = "naming"
    /\ inputs = NoInputs
    /\ branchName = <<>>
    /\ idx = 0
    /\ successfulCommits = <<>>
    /\ result = NoExec
    /\ statusResult = <<>>
    /\ commitResult = NoExec
    /\ cherryPickResult = NoResult
    /\ pr = NoPr
    /\ title = <<>>
    /\ body = <<>>
    /\ bodyIdx = 0
    /\ trace = <<>>
    /\ outputs = <<>>
    /\ failed = <<>>
    /\ warnings = <<>>
    /\ tree = "clean"
    /\ abortExit = <<>>
    /\ infraResult = NoInfra
    /\ requests = <<>>
    /\ failedOutputs = <<>>
    /\ names = <<>>
    /\ clock \in Instants

\* index.ts:317: one more run computes its branch name at the current
\* millisecond
NameBranch ==
    /\ pc = "naming"
    /\ Len(names) < MaxRuns
    /\ \E target \in NamingTargets, first \in NamingFirstCommits,
          nb \in NamingNewBranches :
        LET in == [NoInputs EXCEPT !.commits = <<first>>,
                                   !.targetBranch = target,
                                   !.newBranch = nb]
        IN names' = Append(names, [targetBranch |-> target,
                                   commit |-> first,
                                   newBranch |-> nb,
                                   now |-> clock,
                                   name |-> BranchNameFor(in, Digits(clock))])
    /\ UNCHANGED <<pc, inputs, branchName, idx, successfulCommits, result,
                   statusResult, commitResult, cherryPickResult, pr, title, body,
                   bodyIdx, trace, outputs, failed, failedOutputs, warnings, tree,
                   abortExit, infraResult, requests, clock>>

\* a millisecond passes
Tick ==
    /\ pc = "naming"
    /\ clock + 1 \in Instants
    /\ clock' = clock + 1
    /\ UNCHANGED <<pc, inputs, branchName, idx, successfulCommits, result,
                   statusResult, commitResult, cherryPickResult, pr, title, body,
                   bodyIdx, trace, outputs, failed, failedOutputs, warnings, tree,
                   abortExit, infraResult, requests, names>>

NamingNext ==
    \/ NameBranch
    \/ Tick

SpecNaming == NamingInit /\ [][NamingNext]_vars

---------------------------------------------------------------------------
(* Vocabulary of the properties *)

Done == pc = "done"
\* cherryPickCommits has returned its outcome to run()
Returned == cherryPickResult.status # "pending"

CallsOf(name) == SelectSeq(trace, LAMBDA e : e.op = name)
Count(name) == Len(CallsOf(name))
HasOp(name) == Count(name) > 0

\* the commit positions handed to git cherry-pick, in the order issued
ApplyLog == [i \in 1..Count("cherry-pick") |-> CallsOf("cherry-pick")[i].pos]
\* positions 1, 2, ..., n
UpTo(n) == [i \in 1..n |-> i]

IsPrefix(p, s) == Len(p) <= Len(s) /\ SubSeq(s, 1, Len(p)) = p

\* the status codes of the path entries of a git status --porcelain output
EntryCodes(stdout) ==
    LET lines == Split(stdout, "\n") IN
    {SubSeq(lines[i], 1, 2) : i \in {j \in 1..Len(lines) : Len(lines[j]) >= 2}}
\* some path entry has status code UU, AA or DD
HasConflictEntry(stdout) == EntryCodes(stdout) \cap {UU, AA, DD} # {}

ReportedNothingToCommit(cr) ==
    cr.exitCode # 0 /\ Includes(cr.stdout, NothingToCommit)

---------------------------------------------------------------------------
(* Properties *)

\* C1: when cherryPickCommits has returned and no apply failed (no status
\* query was needed) and the last finalize exited 0, the outcome is success
\* and successfulCommits is the input list, element for element.
C1_CleanReplaySucceeds ==
    (Returned /\ ~HasOp("status") /\ commitResult.exitCode = 0)
        => /\ cherryPickResult.status = "success"
           /\ cherryPickResult.successfulCommits = inputs.commits

\* a clean replay of a list of two equal commits has returned
C1_Witness ==
    /\ Returned /\ ~HasOp("status") /\ commitResult.exitCode = 0
    /\ Len(inputs.commits) = 2
    /\ inputs.commits[1] = inputs.commits[2]
    /\ inputs.commits[1] # <<>>

\* C2: when the apply of the k-th commit failed and the working-tree status
\* lists a path with code UU, AA or DD, the outcome is conflict with the
\* first k-1 commits applied and the k-th as failedCommit, abort was called
\* exactly once, and the applies issued are those of positions 1..k only.
C2_ConflictAtK ==
    (Returned /\ HasOp("status") /\ HasConflictEntry(statusResult))
        => LET k == ApplyLog[Len(ApplyLog)] IN
           /\ cherryPickResult.status = "conflict"
           /\ cherryPickResult.successfulCommits = SubSeq(inputs.commits, 1, k - 1)
           /\ cherryPickResult.failedCommit = inputs.commits[k]
           /\ Count("cherry-pick --abort") = 1
           /\ ApplyLog = UpTo(k)

\* the second of three commits conflicted and the run has ended
C2_Witness ==
    /\ Done /\ Returned /\ HasOp("status") /\ HasConflictEntry(statusResult)
    /\ Len(inputs.commits) = 3
    /\ ApplyLog = <<1, 2>>

\* C3: successfulCommits is always a prefix of the input list, a strict one
\* in a conflict or failed outcome, and the applies issued so far are those
\* of positions 1, 2, ..., m in that order, each once, where m is the number
\* of applied commits or one more.
C3_AppliedIsPrefix ==
    /\ IsPrefix(successfulCommits, inputs.commits)
    /\ ApplyLog = UpTo(Len(ApplyLog))
    /\ Len(ApplyLog) \in {Len(successfulCommits), Len(successfulCommits) + 1}
    /\ Returned =>
         /\ IsPrefix(cherryPickResult.successfulCommits, inputs.commits)
         /\ cherryPickResult.successfulCommits = successfulCommits
         /\ cherryPickResult.status \in {"conflict", "failed"}
              => Len(cherryPickResult.successfulCommits) < Len(inputs.commits)
         /\ cherryPickResult.status = "success"
              => cherryPickResult.successfulCommits = inputs.commits

\* a failed outcome after one applied commit
C3_Witness ==
    /\ Returned
    /\ cherryPickResult.status = "failed"
    /\ Len(cherryPickResult.successfulCommits) = 1
    /\ ApplyLog = <<1, 2>>

\* C4: a push, a pull-request creation (its subject lookups included) or a
\* label attachment has been issued only if the replay outcome is success,
\* and never more than one push.
C4_DownstreamOnlyOnSuccess ==
    /\ (HasOp("push") \/ HasOp("pulls.create") \/ HasOp("issues.addLabels")
          \/ HasOp("log"))
         => (Returned /\ cherryPickResult.status = "success")
    /\ Count("push") <= 1
    /\ Count("pulls.create") <= 1

\* a run that ended in conflict after applying a commit, nothing pushed
C4_Witness ==
    /\ Done
    /\ cherryPickResult.status = "conflict"
    /\ Len(cherryPickResult.successfulCommits) = 1
    /\ ~HasOp("push")

ReplayOutputsSet ==
    /\ "cherry-pick-status" \in DOMAIN outputs
    /\ "branch-name" \in DOMAIN outputs

\* C5 as stated: every run that has ended, wherever it failed, has set the
\* outputs branch-name and cherry-pick-status.
C5_AlwaysReported == Done => ReplayOutputsSet

\* C5 as amended: the two outputs are set exactly in the runs whose replay
\* returned an outcome, with the branch name used and the status returned;
\* a run that ended before the replay (validation, fetch, checkout or branch
\* creation failed) has set neither.
C5_ReportedOnceReplayed ==
    /\ Returned =>
         /\ ReplayOutputsSet
         /\ outputs["cherry-pick-status"] = cherryPickResult.status
         /\ outputs["branch-name"] = branchName
         /\ branchName # <<>>
    /\ ~Returned => DOMAIN outputs = {}

\* a run that ended failed after a failed replay, both outputs set
C5_Witness ==
    /\ Done
    /\ cherryPickResult.status = "failed"
    /\ failed # <<>>
    /\ ReplayOutputsSet

\* C6: every push, subject lookup, pull-request creation and label
\* attachment in the trace comes after both setOutput calls, and in a run
\* that ended after a push was attempted the two outputs are still set.
C6_OutputsBeforeDownstream ==
    /\ \A i \in 1..Len(trace) :
         trace[i].op \in {"push", "log", "pulls.create", "issues.addLabels"}
           => /\ \E j \in 1..(i - 1) : trace[j].op = "setOutput cherry-pick-status"
              /\ \E j \in 1..(i - 1) : trace[j].op = "setOutput branch-name"
    /\ (Done /\ HasOp("push")) =>
         /\ ReplayOutputsSet
         /\ outputs["cherry-pick-status"] = "success"
         /\ outputs["branch-name"] = branchName

\* a run failed by a rejected label attachment, the two outputs still set
C6_Witness ==
    /\ Done
    /\ HasOp("issues.addLabels")
    /\ failed = << <<"HttpError: issues.addLabels">> >>
    /\ ReplayOutputsSet

\* C7: right after a finalize that exited non-zero reporting "nothing to
\* commit", the commit is the last element of successfulCommits, the outcome
\* is not failed, and the loop is at the next commit or has returned success.
C7_NothingToCommitTolerated ==
    ReportedNothingToCommit(commitResult) =>
        /\ idx >= 2
        /\ Len(successfulCommits) = idx - 1
        /\ successfulCommits[idx - 1] = inputs.commits[idx - 1]
        /\ cherryPickResult.status # "failed"
        /\ IF idx <= Len(inputs.commits)
           THEN pc = "cherryPick" /\ ~Returned
           ELSE cherryPickResult.status = "success"

\* the first of two commits had nothing to commit and the loop is at the second
C7_Witness ==
    /\ ReportedNothingToCommit(commitResult)
    /\ pc = "cherryPick"
    /\ idx = 2
    /\ successfulCommits = <<inputs.commits[1]>>

\* C8 as stated: a run that ended with outcome conflict has a clean working
\* tree.
C8_CleanAfterConflict ==
    (Done /\ cherryPickResult.status = "conflict") => tree = "clean"

\* C8 as amended: a run that ended with outcome conflict has called git
\* cherry-pick --abort exactly once, after the failed apply, and its working
\* tree is clean if that abort exited 0.
C8_AbortedAfterConflict ==
    (Returned /\ cherryPickResult.status = "conflict") =>
        /\ Count("cherry-pick --abort") = 1
        /\ Len(abortExit) = 1
        /\ trace[Len(trace) - 2] = Op("cherry-pick --abort", Len(ApplyLog))
        /\ abortExit[1] = 0 => tree = "clean"

\* a conflict whose abort exited 0, the unmerged paths gone
C8_Witness ==
    /\ Done
    /\ cherryPickResult.status = "conflict"
    /\ HasConflictEntry(statusResult)
    /\ abortExit = <<0>>
    /\ tree = "clean"

\* C9: once the inputs are read with the commits input empty or no
\* repository identifier, the run has ended marked failed with the matching
\* message and nothing at all was issued: no git call, no API call, no output.
C9_ValidationStopsRun ==
    (pc # "start" /\ (RepositoryMissing(inputs) \/ inputs.commits = << <<>> >>)) =>
        /\ Done
        /\ failed = << IF RepositoryMissing(inputs)
                       THEN <<"Repository not specified and GITHUB_REPOSITORY not set">>
                       ELSE <<"No commits specified">> >>
        /\ trace = <<>>
        /\ DOMAIN outputs = {}
        /\ tree = "clean"

\* a run with a repository and an empty commits input has ended
C9_Witness ==
    /\ Done
    /\ ~RepositoryMissing(inputs)
    /\ inputs.commits = << <<>> >>
    /\ failed = << <<"No commits specified">> >>

\* C10: after a failed apply the outcome is conflict exactly when the
\* working-tree status has a path entry with code UU, AA or DD, and failed
\* for every other status.
C10_ConflictIffMarker ==
    (Returned /\ HasOp("status")) =>
        /\ cherryPickResult.status = "conflict" <=> HasConflictEntry(statusResult)
        /\ cherryPickResult.status = "failed" <=> ~HasConflictEntry(statusResult)


\* C11: a returned outcome has one of the three statuses; with conflict or
\* failed it carries failedCommit (the commit the loop stopped at) and error,
\* with success it carries neither.
C11_PayloadGatedByStatus ==
    Returned =>
        /\ cherryPickResult.status \in {"success", "conflict", "failed"}
        /\ cherryPickResult.status \in {"conflict", "failed"} =>
             /\ DOMAIN cherryPickResult
                  = {"status", "successfulCommits", "failedCommit", "error"}
             /\ cherryPickResult.failedCommit
                  = inputs.commits[Len(cherryPickResult.successfulCommits) + 1]
        /\ cherryPickResult.status = "success" =>
             DOMAIN cherryPickResult = {"status", "successfulCommits"}

\* a failed outcome with its diagnostic, after one applied commit
C11_Witness ==
    /\ Returned
    /\ cherryPickResult.status = "failed"
    /\ cherryPickResult.error = <<"error: could not apply">>
    /\ Len(inputs.commits) >= 2
    /\ cherryPickResult.failedCommit = inputs.commits[2]


\* C12: when fetch, checkout of the remote target or branch creation exits
\* non-zero the run ends there with one setFailed and no cherry-pick, push,
\* subject lookup or API call is issued; when push exits non-zero the run
\* ends there with one setFailed and no subject lookup or API call is
\* issued; in each case neither pr-url nor pr-number is among the outputs.
C12_InfrastructureFailureFatal ==
    infraResult.exitCode # 0 =>
        /\ Done
        /\ Len(failed) = 1
        /\ trace[Len(trace)].op = infraResult.op
        /\ Count(infraResult.op) = 1
        /\ requests = <<>>
        /\ ~HasOp("log") /\ ~HasOp("pulls.create") /\ ~HasOp("issues.addLabels")
        /\ "pr-url" \notin DOMAIN outputs
        /\ "pr-number" \notin DOMAIN outputs
        /\ infraResult.op \in {"fetch", "checkout", "checkout -b"} =>
             /\ ~HasOp("cherry-pick") /\ ~HasOp("push")
             /\ ~Returned
             /\ outputs = <<>>
        /\ infraResult.op = "fetch" =>
             failed[1] = <<"Failed to fetch branch ", inputs.targetBranch>>
        /\ infraResult.op = "checkout" =>
             failed[1] = <<"Failed to checkout origin/", inputs.targetBranch>>
        /\ infraResult.op = "checkout -b" =>
             failed[1] = <<"Failed to create branch ", branchName>>
        /\ infraResult.op = "push" =>
             /\ failed[1] = <<"Failed to push branch: ">>
             /\ cherryPickResult.status = "success"

\* the push of a two-commit replay exited non-zero
C12_Witness ==
    /\ infraResult = [op |-> "push", exitCode |-> 1]
    /\ Len(cherryPickResult.successfulCommits) = 2
    /\ Done


\* the requests sent to one API method, in the order sent
RequestsTo(api) == SelectSeq(requests, LAMBDA r : r.api = api)
\* the positions of an operation in the trace
PositionsOf(name) == {i \in 1..Len(trace) : trace[i].op = name}

\* C13: pulls.create is called at most once; an issues.addLabels call comes
\* after the pulls.create call and only once the pull request exists; once
\* the pull request exists and the run has ended, a non-empty label list has
\* produced exactly one issues.addLabels request carrying the whole list in
\* input order and the number of the created pull request, and an empty
\* label list has produced none.
C13_LabelsAfterCreate ==
    /\ Len(RequestsTo("pulls.create")) <= 1
    /\ Count("pulls.create") = Len(RequestsTo("pulls.create"))
    /\ Count("issues.addLabels") = Len(RequestsTo("issues.addLabels"))
    /\ Count("issues.addLabels") <= 1
    /\ \A j \in PositionsOf("issues.addLabels") :
         /\ pr # NoPr
         /\ \E i \in PositionsOf("pulls.create") : i < j
    /\ (Done /\ pr # NoPr /\ inputs.labels # <<>>) =>
         RequestsTo("issues.addLabels") =
           <<[api |-> "issues.addLabels", issue_number |-> pr.number,
              labels |-> inputs.labels]>>
    /\ inputs.labels = <<>> => RequestsTo("issues.addLabels") = <<>>

\* a run that created pull request 42 and attached the labels x, y to it
C13_Witness ==
    /\ Done
    /\ pr # NoPr
    /\ RequestsTo("issues.addLabels") =
         <<[api |-> "issues.addLabels", issue_number |-> 42,
            labels |-> << <<"x">>, <<"y">> >>]>>
    /\ Len(RequestsTo("pulls.create")) = 1


\* the number a sequence of decimal digits denotes
RECURSIVE DecimalValue(_)
DecimalValue(d) ==
    IF d = <<>> THEN 0
    ELSE 10 * DecimalValue(SubSeq(d, 1, Len(d) - 1))
           + (CHOOSE v \in 0..9 : DigitChars[v + 1] = d[Len(d)])
IsDecimal(d) ==
    /\ Len(d) >= 1
    /\ \A p \in 1..Len(d) : \E v \in 0..9 : DigitChars[v + 1] = d[p]
    /\ Len(d) > 1 => d[1] # "0"

\* the name r.name is cherrypick/<target, - for />/<first 7 of commit>-<ms>
AutoNameShape(r) ==
    LET n == r.name
        t == r.targetBranch
        k == IF Len(r.commit) < 7 THEN Len(r.commit) ELSE 7
        head == 11 + Len(t) + 1 + k + 1
    IN  /\ Len(n) > head
        /\ SubSeq(n, 1, 11) = <<"c", "h", "e", "r", "r", "y", "p", "i", "c", "k", "/">>
        /\ \A p \in 1..Len(t) : n[11 + p] = (IF t[p] = "/" THEN "-" ELSE t[p])
        /\ n[11 + Len(t) + 1] = "/"
        /\ \A p \in 1..k : n[11 + Len(t) + 1 + p] = r.commit[p]
        /\ n[head] = "-"
        /\ IsDecimal(SubSeq(n, head + 1, Len(n)))
        /\ DecimalValue(SubSeq(n, head + 1, Len(n))) = r.now

\* C14: a run given a non-empty new-branch uses it verbatim (so two runs
\* given the same one use the same name); any other run's name is
\* 'cherrypick/', the target branch with every / replaced by -, '/', the
\* first 7 characters of the first commit, '-', and the decimal digits of
\* the millisecond the run read.
C14_BranchNaming ==
    \A i \in 1..Len(names) :
        /\ names[i].newBranch # <<>> => names[i].name = names[i].newBranch
        /\ names[i].newBranch = <<>> => AutoNameShape(names[i])
        /\ \A j \in 1..Len(names) :
             (names[i].newBranch # <<>> /\ names[j].newBranch = names[i].newBranch)
                 => names[j].name = names[i].name

\* one run named itself from target a/b/c and a nine-character commit at
\* millisecond 10, another used the explicit name n/b
C14_Witness ==
    /\ Len(names) = 2
    /\ names[1].newBranch = <<>>
    /\ names[1].targetBranch = <<"a", "/", "b", "/", "c">>
    /\ Len(names[1].commit) = 9
    /\ names[1].now = 10
    /\ names[1].name = <<"c", "h", "e", "r", "r", "y", "p", "i", "c", "k", "/",
                         "a", "-", "b", "-", "c", "/",
                         "a", "b", "c", "d", "e", "f", "g", "-", "1", "0">>
    /\ names[2].name = <<"n", "/", "b">>

\* C15: two runs that generate their names for the same target branch and
\* the same first commit get different names.
C15_ConcurrentNamesDistinct ==
    \A i, j \in 1..Len(names) :
        (/\ i < j
         /\ names[i].newBranch = <<>> /\ names[j].newBranch = <<>>
         /\ names[i].targetBranch = names[j].targetBranch
         /\ names[i].commit = names[j].commit)
            => names[i].name # names[j].name


\* createPullRequest has computed the title
TitleComposed == pc \in {"body", "create", "labels"} \/ HasOp("pulls.create")
\* createPullRequest has computed the body
BodyComposed == pc \in {"create", "labels"} \/ HasOp("pulls.create")

\* C16: once the title is computed, it is the pr-title input when that is
\* non-empty; otherwise 'Cherry-pick: ' and the subject of the applied commit
\* when one commit was applied, and 'Cherry-pick N commits to <target>' with
\* N the length of successfulCommits when more than one was applied; that
\* title is the one sent to pulls.create.
C16_PullRequestTitle ==
    TitleComposed =>
        LET applied == cherryPickResult.successfulCommits IN
        /\ inputs.prTitle # <<>> =>
             title = [kind |-> "provided", n |-> 0, text |-> inputs.prTitle]
        /\ (inputs.prTitle = <<>> /\ Len(applied) = 1) =>
             title = [kind |-> "Cherry-pick: ", n |-> 0, text |-> SubjectOf(applied[1])]
        /\ (inputs.prTitle = <<>> /\ Len(applied) > 1) =>
             title = [kind |-> "Cherry-pick N commits to ", n |-> Len(applied),
                      text |-> inputs.targetBranch]
        /\ Len(applied) >= 1
        /\ \A i \in 1..Len(requests) :
             requests[i].api = "pulls.create" => requests[i].title = title

\* a pull request titled for two applied commits was sent
C16_Witness ==
    /\ Len(RequestsTo("pulls.create")) = 1
    /\ RequestsTo("pulls.create")[1].title =
         [kind |-> "Cherry-pick N commits to ", n |-> 2, text |-> <<"r", "/", "1">>]
    /\ Len(cherryPickResult.successfulCommits) = 2

\* C17: without a pr-body input, the generated body has one commit line per
\* element of successfulCommits, in that order (the lines written so far are
\* those of the first commits), the i-th line carrying the first 7
\* characters of the i-th applied commit and its subject; that body is the
\* one sent to pulls.create.
C17_BodyListsApplied ==
    (Returned /\ cherryPickResult.status = "success" /\ inputs.prBody = <<>>) =>
        LET applied == cherryPickResult.successfulCommits IN
        /\ Len(body) <= Len(applied)
        /\ BodyComposed => Len(body) = Len(applied)
        /\ \A i \in 1..Len(body) :
             /\ body[i].sha =
                  SubSeq(applied[i], 1, IF Len(applied[i]) < 7 THEN Len(applied[i]) ELSE 7)
             /\ body[i].msg = SubjectOf(applied[i])
        /\ \A i \in 1..Len(requests) :
             requests[i].api = "pulls.create" =>
                 requests[i].body = [kind |-> "generated",
                                     target |-> inputs.targetBranch,
                                     lines |-> body]

\* the body sent lists the nine-character commit by its first seven
\* characters, then the commit b
C17_Witness ==
    /\ Len(RequestsTo("pulls.create")) = 1
    /\ inputs.prBody = <<>>
    /\ cherryPickResult.successfulCommits =
         << <<"a", "b", "c", "d", "e", "f", "g", "h", "i">>, <<"b">> >>
    /\ Len(body) = 2
    /\ body[1].sha = <<"a", "b", "c", "d", "e", "f", "g">>
    /\ body[2].sha = <<"b">>


\* C18: when the replay outcome is conflict or failed, the run has ended
\* with core.setFailed called exactly once, the cherry-pick-status output
\* already held that outcome when setFailed was called, and the message is
\* 'Merge conflict while cherry-picking commit <failedCommit>' for conflict
\* and 'Cherry-pick failed: <error>' for failed.
C18_NonSuccessMarkedFailed ==
    (Returned /\ cherryPickResult.status \in {"conflict", "failed"}) =>
        /\ Done
        /\ Len(failed) = 1
        /\ Len(failedOutputs) = 1
        /\ "cherry-pick-status" \in DOMAIN failedOutputs[1]
        /\ failedOutputs[1]["cherry-pick-status"] = cherryPickResult.status
        /\ outputs["cherry-pick-status"] = cherryPickResult.status
        /\ cherryPickResult.status = "conflict" =>
             failed[1] = <<"Merge conflict while cherry-picking commit ",
                           cherryPickResult.failedCommit>>
        /\ cherryPickResult.status = "failed" =>
             failed[1] = <<"Cherry-pick failed: ", cherryPickResult.error>>

\* the second commit conflicted and the run was marked failed for it
C18_Witness ==
    /\ Done
    /\ cherryPickResult.status = "conflict"
    /\ Len(cherryPickResult.successfulCommits) = 1
    /\ failed = << <<"Merge conflict while cherry-picking commit ",
                     inputs.commits[2]>> >>
    /\ failedOutputs[1]["cherry-pick-status"] = "conflict"


\* the position of the commit of the last git commit call
LastCommitPos == CallsOf("commit")[Count("commit")].pos

\* C19: when the last git commit exited non-zero and its stdout does not
\* contain "nothing to commit", cherryPickCommits has returned failed with
\* that commit as failedCommit, the error 'Failed to commit cherry-pick: '
\* followed by the stderr of git commit, and the commits before it as
\* successfulCommits; the applies issued are those up to that commit, git
\* commit was the last git call, and abort and status were never called.
C19_FinalizeFailureStops ==
    (/\ HasOp("commit")
     /\ commitResult # NoExec
     /\ commitResult.exitCode # 0
     /\ ~Includes(commitResult.stdout, NothingToCommit)) =>
        LET k == LastCommitPos IN
        /\ Returned
        /\ cherryPickResult.status = "failed"
        /\ cherryPickResult.failedCommit = inputs.commits[k]
        /\ cherryPickResult.error =
             <<"Failed to commit cherry-pick: ", commitResult.stderr>>
        /\ cherryPickResult.successfulCommits = SubSeq(inputs.commits, 1, k - 1)
        /\ ApplyLog = UpTo(k)
        /\ Count("commit") = k
        /\ ~HasOp("cherry-pick --abort")
        /\ ~HasOp("status")
        /\ ~HasOp("push")
        /\ Done

\* the git commit of the first of two commits failed
C19_Witness ==
    /\ Returned
    /\ commitResult.exitCode = 1
    /\ commitResult.stderr = <<"error: commit failed">>
    /\ Len(inputs.commits) = 2
    /\ LastCommitPos = 1
    /\ cherryPickResult.successfulCommits = <<>>


\* the git commit whose result is cr let the loop go on
CommitCompleted(cr) ==
    cr # NoExec /\ (cr.exitCode = 0 \/ Includes(cr.stdout, NothingToCommit))

\* every repository operation a step issues comes right after the operation
\* the order prescribes, whose result allowed it; Marked says whether a
\* status output shows conflict markers
OrderedStep(Marked(_)) ==
    \A i \in (Len(trace) + 1)..Len(trace') :
        LET e == trace'[i]
            prev == IF i > 1 THEN trace'[i - 1] ELSE Op("none", 0)
        IN
        /\ e.op = "config user.name" => i = 1
        /\ e.op = "config user.email" => (i = 2 /\ prev.op = "config user.name")
        /\ e.op = "fetch" => (i = 3 /\ prev.op = "config user.email")
        /\ e.op = "checkout" =>
             /\ i = 4 /\ prev.op = "fetch"
             /\ infraResult = [op |-> "fetch", exitCode |-> 0]
        /\ e.op = "checkout -b" =>
             /\ i = 5 /\ prev.op = "checkout"
             /\ infraResult = [op |-> "checkout", exitCode |-> 0]
        /\ e.op = "cherry-pick" =>
             /\ e.pos \in 1..Len(inputs.commits)
             /\ \/ /\ e.pos = 1
                   /\ prev.op = "checkout -b"
                   /\ infraResult = [op |-> "checkout -b", exitCode |-> 0]
                \/ /\ e.pos > 1
                   /\ prev = Op("commit", e.pos - 1)
                   /\ CommitCompleted(commitResult)
        /\ e.op = "commit" =>
             (prev = Op("cherry-pick", e.pos) /\ result.exitCode = 0)
        /\ e.op = "status" =>
             (prev = Op("cherry-pick", e.pos) /\ result.exitCode # 0)
        /\ e.op = "cherry-pick --abort" =>
             (prev = Op("status", e.pos) /\ Marked(statusResult))

\* C20: the git calls of a run come one after the other in the order config,
\* fetch, checkout, checkout -b, then per commit in input order cherry-pick
\* and, only when it exited 0, commit; the cherry-pick of the next commit
\* comes only after a commit that exited 0 or reported nothing to commit;
\* status comes only after a cherry-pick that exited non-zero; abort comes
\* only after a status whose output lists a path with code UU, AA or DD.
C20_StrictOrder == [][OrderedStep(HasConflictEntry)]_vars


\* the warnings other than the two conflict notices of index.ts:137 and 341,
\* which are issued whatever the abort's exit code
OtherWarnings ==
    SelectSeq(warnings, LAMBDA w :
        w[1] \notin {"Conflict detected while cherry-picking ",
                     "Cherry-pick had conflicts. Manual intervention required."})

\* in a conflict outcome the abort was
\* called exactly once, whatever its exit code, the outcome carries the
\* commits applied before the conflicting one and that commit, and the run
\* was marked failed once, for the conflict
AbortNotEscalated ==
    (Returned /\ cherryPickResult.status = "conflict") =>
        LET k == Len(ApplyLog) IN
        /\ Count("cherry-pick --abort") = 1
        /\ Len(abortExit) = 1
        /\ cherryPickResult.successfulCommits = SubSeq(inputs.commits, 1, k - 1)
        /\ cherryPickResult.failedCommit = inputs.commits[k]
        /\ failed = << <<"Merge conflict while cherry-picking commit ",
                         inputs.commits[k]>> >>

\* C21: on conflict the abort is called exactly once and its exit code does
\* not change the outcome; when the abort exited non-zero, a warning reports
\* that failure.
C21_AbortFailureWarned ==
    /\ AbortNotEscalated
    /\ (Returned /\ cherryPickResult.status = "conflict" /\ abortExit # <<>>
          /\ abortExit[1] # 0) => OtherWarnings # <<>>


\* the commit positions handed to git log, in the order issued
LogPositions == [i \in 1..Count("log") |-> CallsOf("log")[i].pos]

\* C22 as stated: once the pull request of a run with no pr-title and no
\* pr-body input is composed, the number of git log calls issued is the
\* number of applied commits.
C22_OneLookupPerCommit ==
    (BodyComposed /\ inputs.prTitle = <<>> /\ inputs.prBody = <<>>) =>
        Count("log") = Len(cherryPickResult.successfulCommits)

\* C22 as amended: once the pull request is composed, the git log calls
\* issued are one for the title, of the first commit, when no pr-title was
\* given and exactly one commit was requested, followed by one per applied
\* commit in order when no pr-body was given; without pr-title and pr-body
\* that is n calls for n > 1 applied commits and 2 calls for n = 1.
C22_LookupsTitleThenBody ==
    BodyComposed =>
        LET n == Len(cherryPickResult.successfulCommits)
            forTitle == IF inputs.prTitle = <<>> /\ Len(inputs.commits) = 1
                        THEN <<1>> ELSE <<>>
            forBody == IF inputs.prBody = <<>> THEN UpTo(n) ELSE <<>>
        IN  /\ LogPositions = forTitle \o forBody
            /\ (inputs.prTitle = <<>> /\ inputs.prBody = <<>> /\ n > 1)
                 => Count("log") = n
            /\ (inputs.prTitle = <<>> /\ inputs.prBody = <<>> /\ n = 1)
                 => Count("log") = 2

\* the pull request of a single applied commit was composed from two
\* lookups of that commit
C22_Witness ==
    /\ HasOp("pulls.create")
    /\ inputs.prTitle = <<>> /\ inputs.prBody = <<>>
    /\ Len(cherryPickResult.successfulCommits) = 1
    /\ LogPositions = <<1, 1>>


\* the run ended without core.setFailed: replay success, push and pull
\* request (and label attachment, when there are labels) completed
EndedCompleted ==
    /\ failed = <<>>
    /\ cherryPickResult.status = "success"
    /\ infraResult = [op |-> "push", exitCode |-> 0]
    /\ pr # NoPr
    /\ "pr-url" \in DOMAIN outputs
\* the run ended on a conflict outcome
EndedConflict ==
    /\ cherryPickResult.status = "conflict"
    /\ Len(failed) = 1
    /\ failed[1][1] = "Merge conflict while cherry-picking commit "
    /\ ~HasOp("push") /\ requests = <<>>
\* the run ended on a failed outcome
EndedFailed ==
    /\ cherryPickResult.status = "failed"
    /\ Len(failed) = 1
    /\ failed[1][1] = "Cherry-pick failed: "
    /\ ~HasOp("push") /\ requests = <<>>
\* the run ended on an error outside the replay, reported once through
\* core.setFailed
EndedFatal ==
    /\ cherryPickResult.status \in {"pending", "success"}
    /\ Len(failed) = 1
    /\ failed[1][1] \notin {"Merge conflict while cherry-picking commit ",
                            "Cherry-pick failed: "}
    /\ "pr-url" \notin DOMAIN outputs

EndConditions ==
    {c \in {"completed", "conflict", "failed", "fatal"} :
        \/ c = "completed" /\ EndedCompleted
        \/ c = "conflict" /\ EndedConflict
        \/ c = "failed" /\ EndedFailed
        \/ c = "fatal" /\ EndedFatal}

\* C23: every run in which each awaited call returns or throws eventually
\* ends, in exactly one of the conditions completed, conflict, failed, or
\* fatal error reported through setFailed, having issued at most as many
\* git cherry-pick calls as there are commits in the input list.
C23_Terminates ==
    <>(/\ Done
       /\ Cardinality(EndConditions) = 1
       /\ Count("cherry-pick") <= Len(inputs.commits))

\* a run of two commits ended completed after two applies
C23_Witness ==
    /\ Done
    /\ EndConditions = {"completed"}
    /\ Count("cherry-pick") = 2
    /\ Len(inputs.commits) = 2


\* pr-url and pr-number are set only once the pull request exists, and then
\* to its URL and number
PrOutputsOnlyAfterCreate ==
    /\ ("pr-url" \in DOMAIN outputs) <=> ("pr-number" \in DOMAIN outputs)
    /\ "pr-url" \in DOMAIN outputs =>
         /\ pr # NoPr
         /\ Len(RequestsTo("pulls.create")) = 1
         /\ outputs["pr-url"] = pr.url
         /\ outputs["pr-number"] = pr.number

\* C24: a run that ended after pulls.create returned a pull request has set
\* pr-url and pr-number to that pull request's URL and number, whatever
\* followed the creation; and the two outputs are never set unless the pull
\* request was created.
C24_PrOutputsAlwaysEmitted ==
    /\ PrOutputsOnlyAfterCreate
    /\ (Done /\ pr # NoPr) =>
         /\ "pr-url" \in DOMAIN outputs
         /\ "pr-number" \in DOMAIN outputs


\* C25: every commit reference handed to git cherry-pick is a non-empty
\* string.
C25_NoEmptyCommitApplied ==
    \A i \in 1..Len(ApplyLog) : inputs.commits[ApplyLog[i]] # <<>>

====
